---------------------------- MODULE Spec2Model ----------------------------
(***************************************************************************)
(* Model of the fire particle system of src/src/fire.rs (FireSystem).      *)
(*                                                                         *)
(* Numbers.  The program computes in f32.  The model computes in exact     *)
(* fixed-point arithmetic on integers; rounding of f32 operations is not   *)
(* represented, except in Binary32Spec (below).  The scales are:           *)
(*   time (dt, accumulator, spawn_interval) : 1/TimeScale second           *)
(*   life and size                          : 1/UnitScale                  *)
(*   velocity                               : 1/VelScale per second        *)
(*   position and origin                    : 1/(VelScale*TimeScale)       *)
(*   sines and cosines                      : 1/TrigScale                  *)
(* so that every product and sum the program forms is an integer here.     *)
(*                                                                         *)
(* Randomness.  rand::thread_rng() is an input: each update call reads a   *)
(* stream of samples that starts at a freely chosen seed, and the k-th     *)
(* particle the call spawns takes the k-th samples of the stream.          *)
(*                                                                         *)
(* Two specifications drive the same operations: Spec with frame-sized dt  *)
(* and every operation interleaved, LifeSpec with dt up to a particle's    *)
(* lifetime (at spawn_rate 50 a store then holds some hundred particles).  *)
(* BurstSpec adds one dt long enough to overfill the vertex buffer.        *)
(* Binary32Spec runs update one loop iteration at a time, at a constant    *)
(* frame time, with the accumulator and every particle's life and size as  *)
(* the IEEE 754 binary32 values the program holds: [m, e] stands for       *)
(* m * 2^e, 2^23 <= m < 2^24, or 0.  Positions stay exact there too.       *)
(***************************************************************************)
EXTENDS Integers, Sequences, FiniteSets

VARIABLES
    particles,      \* FireSystem.particles : Vec<Particle>, in order
    origin,         \* FireSystem.origin    : [f32; 3] (public field)
    accumulator,    \* FireSystem.accumulator
    vertices,       \* FireSystem.vertices  : Vec<FireParticleVertex>
    vertex_buffer,  \* GPU vertex buffer: [size (bytes), data (last upload),
                    \*   overrun (an upload larger than size was asked for)]
    time_buffer,    \* GPU time uniform: the last TimeUniform.time written
    clock,          \* start_time.elapsed() as last observed (wall clock)
    pass,           \* commands the last render call issued, in order
    updates,        \* number of update calls so far (bounds the run)
    mark,           \* observer: totals since a marked point of the run
    last,           \* observer: what the last update call was given and did
                    \*   (in Binary32Spec also the accumulator it entered
                    \*   the loop with)
    pc              \* "idle", or "spawning" inside update's while loop

vars == << particles, origin, accumulator, vertices, vertex_buffer,
           time_buffer, clock, pass, updates, mark, last, pc >>

---------------------------------------------------------------------------
(* Scales of the fixed-point representation. *)

TimeScale == 100
UnitScale == 1000
VelScale == 10000
TrigScale == 25
PosScale == VelScale * TimeScale

(* Bounds of the model. *)

MaxUpdates == 2
MaxStallUpdates == 3
MaxBurstUpdates == 2
MaxIterations == 60
MaxBinary32Updates == 42

---------------------------------------------------------------------------
(* Program constants. *)

\* spawn_rate: 50.0 particles per second (FireSystem::new)
spawn_rate == 50

\* cone_angle: 0.3 rad, in 1/UnitScale rad
cone_angle == (3 * UnitScale) \div 10

\* size_of::<FireParticleVertex>(): 3 + 1 + 1 + 2 f32 fields of 4 bytes
VertexSize == (3 + 1 + 1 + 2) * 4

\* size of the vertex buffer created by FireSystem::new, in bytes
VertexBufferSize == VertexSize * 1024 * 4

\* let spawn_interval = 1.0 / self.spawn_rate
spawn_interval == TimeScale \div spawn_rate

\* dt * 0.5 (age rate), in life units
AgeStep(dt) == (dt * 5 * UnitScale) \div (10 * TimeScale)

\* dt * 0.3 (growth), in size units
GrowStep(dt) == (dt * 3 * UnitScale) \div (10 * TimeScale)

\* the literal 1.0 a particle's life is compared with
LifeEnd == UnitScale

\* the corners array of prepare_vertices, in order
corners == << << -1, -1 >>, << 1, -1 >>, << 1, 1 >>,
              << -1, -1 >>, << 1, 1 >>, << -1, 1 >> >>

---------------------------------------------------------------------------
(* Inputs. *)

\* dt values an update call is given, in 1/TimeScale s.  FrameDts: zero,
\* half a spawn interval, two and a half spawn intervals.  StallDts: one
\* spawn interval, and frames about as long as a particle's lifetime (the
\* dt after a stall: 1.98 s and 2 s).
FrameDts == {0, 1, 5}
StallDts == {2, 198, 200}

\* BurstDts: short frames, and the dt after a stall of 14 s.
BurstDts == {0, 1, 2, 1400}

\* readings of the wall clock (start_time.elapsed()) a render call can get
ElapsedValues == {0, 1}

\* values the owner assigns to the public origin field
Origins == { << 0, 0, 0 >>, << PosScale, 0, -PosScale >> }

\* Samples of the random source.  u is rng.random::<f32>() in [0, 1) in
\* 1/UnitScale; an angle sample gives u with the sine and cosine of
\* u * cone_angle; a rotation sample gives the cosine of u * 2 * PI.
\* Mutant of AngleSamples: the cone is 1.36 rad wide, so the second
\* sample is the angle asin(24/25) = 1.287.
AngleSamplesWideCone ==
    << [u |-> 0,   sin |-> 0,  cos |-> 25],
       [u |-> 946, sin |-> 24, cos |-> 7] >>

AngleSamples ==
    << [u |-> 0,   sin |-> 0, cos |-> 25],     \* angle 0
       [u |-> 946, sin |-> 7, cos |-> 24] >>   \* angle asin(7/25) = 0.2838
RotationSamples ==
    << [u |-> 0,   cos |-> 25],                \* rotation 0
       [u |-> 500, cos |-> -25] >>             \* rotation PI
SizeSamples == << 0, 500, 900 >>

\* The random stream of one update call: its k-th spawn draws sample
\* number seed + k of each kind (cyclically).  seed is free per call.
Seeds == 0 .. 1
Pick(samples, n) == samples[(n % Len(samples)) + 1]

---------------------------------------------------------------------------
(* fn spawn_particle(&mut self): the particle pushed, for stream index n.  *)
(* born and lived are observer fields (the origin at the spawn, the dt     *)
(* lived through); the program never reads them.                           *)

\* Mutant of spawn_particle: the particle starts at the world's zero point
\* instead of the emitter's origin.
spawn_particle_at_zero(org, n) ==
    LET a == Pick(AngleSamples, n)
        r == Pick(RotationSamples, n)
        size_rand == Pick(SizeSamples, n)
    IN  [ position |-> << 0, 0, 0 >>,
          velocity |-> << (a.sin * r.cos * 5 * VelScale)
                              \div (10 * TrigScale * TrigScale),
                          ((3 * TrigScale + 2 * a.sin) * 8 * VelScale)
                              \div (10 * 10 * TrigScale),
                          (a.cos * 2 * VelScale) \div TrigScale >>,
          life     |-> 0,
          size     |-> UnitScale \div 10 + size_rand \div 10,
          born     |-> org,
          lived    |-> 0 ]

spawn_particle(org, n) ==
    LET a == Pick(AngleSamples, n)
        r == Pick(RotationSamples, n)
        size_rand == Pick(SizeSamples, n)
        \* dir_x = sin(angle) * cos(rotation), times 0.5
        vx == (a.sin * r.cos * 5 * VelScale) \div (10 * TrigScale * TrigScale)
        \* dir_y = 0.3 + sin(angle) * 0.2, times 0.8
        vy == ((3 * TrigScale + 2 * a.sin) * 8 * VelScale)
                  \div (10 * 10 * TrigScale)
        \* dir_z = cos(angle), times 2.0
        vz == (a.cos * 2 * VelScale) \div TrigScale
    IN  [ position |-> org,
          velocity |-> << vx, vy, vz >>,
          life     |-> 0,
          size     |-> UnitScale \div 10 + size_rand \div 10,
          born     |-> org,
          lived    |-> 0 ]

\* Mutant of Integrate: gravity pulls the vertical velocity down by 1.0
\* per second.
IntegrateWithGravity(p, dt) ==
    [ p EXCEPT
        !.position = << p.position[1] + p.velocity[1] * dt,
                        p.position[2] + p.velocity[2] * dt,
                        p.position[3] + p.velocity[3] * dt >>,
        !.velocity = << p.velocity[1],
                        p.velocity[2] - (dt * VelScale) \div TimeScale,
                        p.velocity[3] >>,
        !.life = p.life + AgeStep(dt),
        !.size = p.size + GrowStep(dt),
        !.lived = p.lived + dt ]

(* The closure of retain_mut in update: the particle after integration.   *)
Integrate(p, dt) ==
    [ p EXCEPT
        !.position = << p.position[1] + p.velocity[1] * dt,
                        p.position[2] + p.velocity[2] * dt,
                        p.position[3] + p.velocity[3] * dt >>,
        !.life = p.life + AgeStep(dt),
        !.size = p.size + GrowStep(dt),
        !.lived = p.lived + dt ]

\* Mutant of Alive: a particle whose life is exactly 1.0 is kept.
AliveInclusive(p) == p.life <= UnitScale

\* the closure's result: p.life < 1.0, on the integrated particle
Alive(p) == p.life < LifeEnd

\* Mutant of RetainMut: the life is tested before the particle is aged.
RetainMutTestFirst(ps, dt) ==
    LET kept == SelectSeq(ps, Alive)
    IN  [i \in 1 .. Len(kept) |-> Integrate(kept[i], dt)]

\* self.particles.retain_mut(|p| { ...; p.life < 1.0 })
RetainMut(ps, dt) ==
    SelectSeq([i \in 1 .. Len(ps) |-> Integrate(ps[i], dt)], Alive)

\* Mutant of LoopGuard: the comparison made strict.
LoopGuardStrict(acc) == acc > spawn_interval

\* while self.accumulator >= spawn_interval: the loop's condition
LoopGuard(acc) == acc >= spawn_interval

\* self.accumulator -= spawn_interval, k times
Drained(acc, k) == acc - k * spawn_interval

\* The number of iterations the while loop runs from accumulator acc: the
\* first k at which the condition fails, having held at every j < k.
Iterations(acc) ==
    CHOOSE k \in 0 .. acc :
        /\ ~LoopGuard(Drained(acc, k))
        /\ \A j \in 0 .. k - 1 : LoopGuard(Drained(acc, j))

\* The spawn loop: one spawn_particle and one subtraction per iteration;
\* the k-th spawn of the call reads the random stream at seed + k.
SpawnLoop(ps, acc, org, seed) ==
    LET n == Iterations(acc)
    IN  [ particles   |-> ps \o [k \in 1 .. n |->
                                    spawn_particle(org, seed + k - 1)],
          accumulator |-> Drained(acc, n),
          spawned     |-> n ]

\* Observer: the lives at which retain_mut dropped particles, for dt
Removed(ps, dt) ==
    { Integrate(ps[i], dt).life : i \in { j \in 1 .. Len(ps) :
                                            ~Alive(Integrate(ps[j], dt)) } }

\* Mutant of update: the spawn loop runs first, and the integration then
\* ages and moves the particles just spawned with the others.
updateSpawnFirst(ps, acc, org, dt, seed) ==
    LET s == SpawnLoop(ps, acc + dt, org, seed)
    IN  [s EXCEPT !.particles = RetainMut(s.particles, dt)]

\* pub fn update(&mut self, dt: f32): the store and accumulator after it
update(ps, acc, org, dt, seed) ==
    SpawnLoop(RetainMut(ps, dt), acc + dt, org, seed)

\* Mutant of Clear: the vertices of the previous frame are kept.
ClearNothing(vs) == vs

\* self.vertices.clear()
Clear(vs) == << >>

\* FireParticleVertex { position, size, life, corner: *corner }
Vertex(particle, corner) ==
    [ position |-> particle.position,
      size     |-> particle.size,
      life     |-> particle.life,
      corner   |-> corner ]

\* Mutant of PushQuads: the loops nested the other way round.
PushQuadsByCorner(vs, ps) ==
    vs \o [i \in 1 .. Len(ps) * Len(corners) |->
              Vertex(ps[((i - 1) % Len(ps)) + 1],
                     corners[((i - 1) \div Len(ps)) + 1])]

\* for particle in &self.particles { for corner in corners.iter() { push } }
\* appended to vs: the i-th push is corner (i-1) % 6 of particle (i-1) / 6
PushQuads(vs, ps) ==
    vs \o [i \in 1 .. Len(ps) * Len(corners) |->
              Vertex(ps[((i - 1) \div Len(corners)) + 1],
                     corners[((i - 1) % Len(corners)) + 1])]

\* pub fn prepare_vertices(&mut self): self.vertices after the call
prepare_vertices(vs, ps) == PushQuads(Clear(vs), ps)

---------------------------------------------------------------------------
(* pub fn render: the commands one call issues, in order, each with what   *)
(* it carries: the time written, the records uploaded, the draw's vertex   *)
(* count.  vs is self.vertices after prepare_vertices.                     *)

WriteTime(elapsed) == << [op |-> "write_time_buffer", arg |-> elapsed] >>
Prepare(vs) == << [op |-> "prepare_vertices", arg |-> Len(vs)] >>
Upload(vs) == << [op |-> "write_vertex_buffer", arg |-> Len(vs)] >>
Bind == << [op |-> "set_pipeline", arg |-> 0],
           [op |-> "set_bind_group_camera", arg |-> 0],
           [op |-> "set_bind_group_time", arg |-> 1],
           [op |-> "set_vertex_buffer", arg |-> 0] >>
Draw(vs) == << [op |-> "draw", arg |-> Len(vs)] >>

\* Mutant of NothingToRender: no early return.
NeverNothingToRender(vs) == FALSE

\* if self.vertices.is_empty() { return; }
NothingToRender(vs) == vs = << >>

\* Mutant of RenderCommands: the draw is recorded before the upload.
RenderCommandsDrawFirst(elapsed, vs) ==
    IF NothingToRender(vs)
    THEN WriteTime(elapsed) \o Prepare(vs)
    ELSE WriteTime(elapsed) \o Prepare(vs) \o Bind \o Draw(vs) \o Upload(vs)

RenderCommands(elapsed, vs) ==
    IF NothingToRender(vs)
    THEN WriteTime(elapsed) \o Prepare(vs)
    ELSE WriteTime(elapsed) \o Prepare(vs) \o Upload(vs) \o Bind \o Draw(vs)

\* queue.write_buffer(&self.vertex_buffer, 0, cast_slice(&self.vertices)):
\* the buffer takes the records if they fit in its size; a write that
\* overruns the buffer is refused by the device's validation, which by
\* default ends the program.
Overruns(buf, vs) == Len(vs) * VertexSize > buf.size

write_buffer(buf, vs) ==
    IF Overruns(buf, vs) THEN [buf EXCEPT !.overrun = TRUE]
    ELSE [buf EXCEPT !.data = vs]

---------------------------------------------------------------------------
(* The accumulator, life and size as the program holds them: f32 (IEEE    *)
(* 754 binary32, round to nearest, ties to even).  A value is 0 or         *)
(* m * 2^e with 2^23 <= m < 2^24.  Only what update does with them is      *)
(* defined: comparison, addition and subtraction of values that are not    *)
(* negative.                                                               *)

F32Zero == [m |-> 0, e |-> 0]
F32One == [m |-> 8388608, e |-> -23]

\* 1.0 / self.spawn_rate with spawn_rate = 50.0: the f32 nearest to 0.02,
\* 0x3CA3D70A = 10737418 * 2^-29 = 0.0199999996
spawn_interval_f32 == [m |-> 10737418, e |-> -29]

\* the f32 nearest to I * 2^e (plus a fraction of 2^e when sticky)
F32Round(I, sticky, e) ==
    IF I = 0 THEN F32Zero
    ELSE IF I < 2^23 THEN
        LET k == CHOOSE k \in 1 .. 23 : 2^23 <= I * 2^k /\ I * 2^k < 2^24
        IN  [m |-> I * 2^k, e |-> e - k]
    ELSE IF I < 2^24 THEN [m |-> I, e |-> e]
    ELSE
        LET s == CHOOSE s \in 1 .. 7 :
                     I \div 2^s < 2^24 /\ I \div 2^(s - 1) >= 2^24
            t == I \div 2^s
            low == I % 2^s
            half == 2^(s - 1)
            up == \/ low > half
                  \/ low = half /\ (sticky \/ t % 2 = 1)
            m == IF up THEN t + 1 ELSE t
        IN  IF m = 2^24 THEN [m |-> 2^23, e |-> e + s + 1]
            ELSE [m |-> m, e |-> e + s]

\* a >= c
F32Ge(a, c) ==
    IF c.m = 0 THEN TRUE
    ELSE IF a.m = 0 THEN FALSE
    ELSE a.e > c.e \/ (a.e = c.e /\ a.m >= c.m)

\* a - c for a >= c > 0: the exact difference, rounded.  When the
\* exponents are 2 or more apart the difference is formed in quarters of
\* a's last place, the bits of c below that kept as a sticky bit.
F32Sub(a, c) ==
    LET d == a.e - c.e
    IN  IF d <= 1 THEN F32Round(a.m * 2^d - c.m, FALSE, c.e)
        ELSE
            LET q == IF d - 2 >= 24 THEN 0 ELSE c.m \div 2^(d - 2)
                rem == IF d - 2 >= 24 THEN c.m ELSE c.m % 2^(d - 2)
                I == 4 * a.m - q - (IF rem > 0 THEN 1 ELSE 0)
            IN  F32Round(I, rem > 0, a.e - 2)

\* a + b for a, b >= 0: the exact sum, rounded, formed like F32Sub
F32Add(a, b) ==
    IF a.m = 0 THEN b
    ELSE IF b.m = 0 THEN a
    ELSE
        LET x == IF a.e >= b.e THEN a ELSE b
            y == IF a.e >= b.e THEN b ELSE a
            d == x.e - y.e
        IN  IF d <= 1 THEN F32Round(x.m * 2^d + y.m, FALSE, y.e)
            ELSE
                LET q == IF d - 2 >= 24 THEN 0 ELSE y.m \div 2^(d - 2)
                    rem == IF d - 2 >= 24 THEN y.m ELSE y.m % 2^(d - 2)
                IN  F32Round(4 * x.m + q, rem > 0, x.e - 2)

\* The frame times of Binary32Spec: dt in 1/TimeScale second and as f32,
\* with the f32 products dt * 0.5 and dt * 0.3 the closure forms from it.
\* 0.02, 0.05 and 0.5 second, and 600000.0 (a week without a frame).
Binary32Dts ==
    { [ticks |-> 2,        f32  |-> [m |-> 10737418, e |-> -29],
                           half |-> [m |-> 10737418, e |-> -30],
                           grow |-> [m |-> 12884902, e |-> -31]],
      [ticks |-> 5,        f32  |-> [m |-> 13421773, e |-> -28],
                           half |-> [m |-> 13421773, e |-> -29],
                           grow |-> [m |-> 16106128, e |-> -30]],
      [ticks |-> 50,       f32  |-> [m |-> 8388608,  e |-> -24],
                           half |-> [m |-> 8388608,  e |-> -25],
                           grow |-> [m |-> 10066330, e |-> -26]],
      [ticks |-> 60000000, f32  |-> [m |-> 9600000,  e |-> -4],
                           half |-> [m |-> 9600000,  e |-> -5],
                           grow |-> [m |-> 11520000, e |-> -6]] }

\* Mutant of SizeSamplesF32: 0.1 + size_rand * 0.2, that is 0.1, 0.2 and
\* 0.28 as f32.
SizeSamplesF32Wide ==
    << [m |-> 13421773, e |-> -27],
       [m |-> 13421773, e |-> -26],
       [m |-> 9395241,  e |-> -25] >>

\* 0.1 + size_rand * 0.1 in f32 for the size_rand of SizeSamples (0, 0.5
\* and 0.9): 0.1, 0.15 and 0.19 as f32
SizeSamplesF32 ==
    << [m |-> 13421773, e |-> -27],
       [m |-> 10066330, e |-> -26],
       [m |-> 12750684, e |-> -26] >>

\* spawn_particle with life and size as f32
spawn_particle_f32(org, n) ==
    [ spawn_particle(org, n) EXCEPT !.life = F32Zero,
                                    !.size = Pick(SizeSamplesF32, n) ]

\* Mutant of IntegrateF32: particles age at 0.25 per second.
IntegrateF32Slow(p, dt) ==
    [ p EXCEPT
        !.position = << p.position[1] + p.velocity[1] * dt.ticks,
                        p.position[2] + p.velocity[2] * dt.ticks,
                        p.position[3] + p.velocity[3] * dt.ticks >>,
        !.life = F32Add(p.life, [dt.half EXCEPT !.e = @ - 1]),
        !.size = F32Add(p.size, dt.grow),
        !.lived = p.lived + dt.ticks ]

\* the closure of retain_mut with life and size as f32
IntegrateF32(p, dt) ==
    [ p EXCEPT
        !.position = << p.position[1] + p.velocity[1] * dt.ticks,
                        p.position[2] + p.velocity[2] * dt.ticks,
                        p.position[3] + p.velocity[3] * dt.ticks >>,
        !.life = F32Add(p.life, dt.half),
        !.size = F32Add(p.size, dt.grow),
        !.lived = p.lived + dt.ticks ]

\* p.life < 1.0
AliveF32(p) == ~F32Ge(p.life, F32One)

RetainMutF32(ps, dt) ==
    SelectSeq([i \in 1 .. Len(ps) |-> IntegrateF32(ps[i], dt)], AliveF32)

\* Observer: for the particles retain_mut dropped, the dt summed over the
\* update calls since each was spawned
RemovedF32(ps, dt) ==
    { ps[i].lived + dt.ticks : i \in { j \in 1 .. Len(ps) :
                                          ~AliveF32(IntegrateF32(ps[j], dt)) } }

---------------------------------------------------------------------------
(* State after FireSystem::new. *)

New(zero) ==
    /\ particles = << >>
    /\ origin \in Origins
    /\ accumulator = zero
    /\ vertices = << >>
    /\ vertex_buffer = [size |-> VertexBufferSize, data |-> << >>,
                        overrun |-> FALSE]
    /\ time_buffer = 0
    /\ clock = 0
    /\ pass = << >>
    /\ updates = 0
    /\ mark = [acc0 |-> 0, T |-> 0, spawned |-> 0, calls |-> 0]
    /\ last = [dt |-> 0, spawned |-> 0, removed |-> {}]
    /\ pc = "idle"

Init == New(0)

\* the program runs until an upload is refused
Running == ~vertex_buffer.overrun

(* fire.update(dt), dt drawn from dts *)
UpdateWith(dts, seeds, most) ==
    /\ Running
    /\ updates < most
    /\ \E dt \in dts, seed \in seeds :
         LET u == update(particles, accumulator, origin, dt, seed)
         IN  /\ particles' = u.particles
             /\ accumulator' = u.accumulator
             /\ mark' = [mark EXCEPT !.T = @ + dt, !.spawned = @ + u.spawned,
                                     !.calls = @ + 1]
             /\ last' = [dt |-> dt, spawned |-> u.spawned,
                         removed |-> Removed(particles, dt)]
    /\ updates' = updates + 1
    /\ UNCHANGED << origin, vertices, vertex_buffer, time_buffer, clock,
                    pass, pc >>

Update == UpdateWith(FrameDts, Seeds, MaxUpdates)

UpdateAfterStall == UpdateWith(StallDts, {0}, MaxStallUpdates)

UpdateAfterLongStall == UpdateWith(BurstDts, {0}, MaxBurstUpdates)

(* fire.origin = o, by the owner of the system *)
SetOrigin ==
    /\ Running
    /\ \E o \in Origins : origin' = o
    /\ UNCHANGED << particles, accumulator, vertices, vertex_buffer,
                    time_buffer, clock, pass, updates, mark, last, pc >>

\* Mutant of PrepareVertices: the particles are drained out of the store
\* as their quads are built (particles.drain(..) for particles.iter()).
PrepareVerticesDraining ==
    /\ Running
    /\ vertices' = prepare_vertices(vertices, particles)
    /\ particles' = << >>
    /\ UNCHANGED << origin, accumulator, vertex_buffer,
                    time_buffer, clock, pass, updates, mark, last, pc >>

(* fire.prepare_vertices() *)
PrepareVertices ==
    /\ Running
    /\ vertices' = prepare_vertices(vertices, particles)
    /\ UNCHANGED << particles, origin, accumulator, vertex_buffer,
                    time_buffer, clock, pass, updates, mark, last, pc >>

(* fire.render(queue, render_pass, camera_bind_group) *)
Render ==
    /\ Running
    /\ \E elapsed \in { e \in ElapsedValues : e >= clock } :
         /\ clock' = elapsed
         /\ time_buffer' = elapsed
         /\ LET vs == prepare_vertices(vertices, particles)
            IN  /\ vertices' = vs
                /\ pass' =
                     IF ~NothingToRender(vs) /\ Overruns(vertex_buffer, vs)
                     THEN WriteTime(elapsed) \o Prepare(vs) \o Upload(vs)
                     ELSE RenderCommands(elapsed, vs)
                /\ vertex_buffer' =
                     IF NothingToRender(vs) THEN vertex_buffer
                     ELSE write_buffer(vertex_buffer, vs)
    /\ UNCHANGED << particles, origin, accumulator, updates, mark, last,
                    pc >>

(* Observer: start counting dt and spawns from the current accumulator. *)
Mark ==
    /\ Running
    /\ mark' = [acc0 |-> accumulator, T |-> 0, spawned |-> 0, calls |-> 0]
    /\ UNCHANGED << particles, origin, accumulator, vertices, vertex_buffer,
                    time_buffer, clock, pass, updates, last, pc >>

Next == Update \/ SetOrigin \/ PrepareVertices \/ Render \/ Mark

\* The system driven frame by frame, with its owner moving the origin.
Spec == Init /\ [][Next]_vars

NextLife == UpdateAfterStall \/ PrepareVertices \/ Render

\* The system driven through frames long enough for particles to die.
LifeSpec == Init /\ [][NextLife]_vars

NextBurst == UpdateAfterLongStall \/ PrepareVertices \/ Render

\* The system driven through a stall long enough to spawn more particles
\* in one update than the vertex buffer has room for.
BurstSpec == Init /\ [][NextBurst]_vars

(* fire.update(dt), step by step, every call of a run with the same dt:
   the retain_mut pass and accumulator += dt. *)
BeginUpdate ==
    /\ Running
    /\ pc = "idle"
    /\ updates < MaxBinary32Updates
    /\ \E dt \in Binary32Dts :
         /\ updates = 0 \/ dt.ticks = last.dt
         /\ particles' = RetainMutF32(particles, dt)
         /\ accumulator' = F32Add(accumulator, dt.f32)
         /\ last' = [dt |-> dt.ticks, spawned |-> 0,
                     removed |-> RemovedF32(particles, dt),
                     entry |-> F32Add(accumulator, dt.f32)]
    /\ pc' = "spawning"
    /\ UNCHANGED << origin, vertices, vertex_buffer, time_buffer, clock,
                    pass, updates, mark >>

(* One iteration of the while loop: spawn_particle, then
   accumulator -= spawn_interval. *)
SpawnStep ==
    /\ pc = "spawning"
    /\ F32Ge(accumulator, spawn_interval_f32)
    /\ last.spawned < MaxIterations
    /\ particles' = Append(particles,
                           spawn_particle_f32(origin, last.spawned))
    /\ accumulator' = F32Sub(accumulator, spawn_interval_f32)
    /\ last' = [last EXCEPT !.spawned = @ + 1]
    /\ UNCHANGED << origin, vertices, vertex_buffer, time_buffer, clock,
                    pass, updates, mark, pc >>

(* The loop condition fails: update returns. *)
EndUpdate ==
    /\ pc = "spawning"
    /\ ~F32Ge(accumulator, spawn_interval_f32)
    /\ pc' = "idle"
    /\ updates' = updates + 1
    /\ mark' = [mark EXCEPT !.T = @ + last.dt, !.spawned = @ + last.spawned,
                            !.calls = @ + 1]
    /\ UNCHANGED << particles, origin, accumulator, vertices, vertex_buffer,
                    time_buffer, clock, pass, last >>

InitBinary32 == New(F32Zero)

NextBinary32 == BeginUpdate \/ SpawnStep \/ EndUpdate

\* The spawn phase of update with the accumulator in f32.
Binary32Spec == InitBinary32 /\ [][NextBinary32]_vars

---------------------------------------------------------------------------
(* Claims about the spawner. *)

\* C1: over the update calls since a marked point, whose dt values sum to
\* T and which started from accumulator value acc0, the number of particles
\* spawned is floor((acc0 + T) * spawn_rate), however T was split.
\* (In Binary32Spec the observer counts the completed calls from the
\* construction on, so acc0 is 0 there.)
C1_SpawnRateExact ==
    mark.spawned = ((mark.acc0 + mark.T) * spawn_rate) \div TimeScale

\* C2: the accumulator stays in [0, spawn_interval).
C2_AccumulatorDrained ==
    /\ 0 <= accumulator
    /\ accumulator * spawn_rate < TimeScale

\* C2 witness: a call that spawned several particles left a remainder.
C2_Witness ==
    /\ last.spawned >= 2
    /\ accumulator > 0

---------------------------------------------------------------------------
(* Claims about integration and removal. *)

InLife(x) == 0 <= x.life /\ x.life < UnitScale

\* C3: every particle in the store has 0 <= life < 1.0, and so has every
\* vertex record built from the store or uploaded: a particle that reached
\* 1.0 is gone before prepare_vertices or render can read it.
C3_LifeInRange ==
    /\ \A i \in 1 .. Len(particles) : InLife(particles[i])
    /\ \A i \in 1 .. Len(vertices) : InLife(vertices[i])
    /\ \A i \in 1 .. Len(vertex_buffer.data) : InLife(vertex_buffer.data[i])

\* C3 witness: the last update removed particles, and a render after it
\* drew the store that was left.
C3_Witness ==
    /\ last.removed # {}
    /\ particles # << >>
    /\ pass # << >>
    /\ pass[Len(pass)] = [op |-> "draw", arg |-> 6 * Len(particles)]
    /\ vertex_buffer.data = vertices
    /\ \E i \in 1 .. Len(particles) : particles[i].life > 0

\* The particles of store ps that an update by dt keeps, as the claim
\* states it: those whose life plus dt * 0.5 is below 1.0.
C4_Kept(ps, dt) ==
    { i \in 1 .. Len(ps) :
        2 * TimeScale * ps[i].life + dt * UnitScale < 2 * TimeScale * UnitScale }

\* C4: an update by dt keeps exactly the particles with life + dt * 0.5 <
\* 1.0, in their order and ahead of the particles it spawns, each with
\* position + velocity * dt, life + dt * 0.5 and size + dt * 0.3.
C4_Integration ==
    [][ updates' # updates =>
          LET dt == last'.dt
              kept == C4_Kept(particles, dt)
          IN  /\ Len(particles') = Cardinality(kept) + last'.spawned
              /\ \A i \in kept :
                   LET p == particles[i]
                       q == particles'[Cardinality({j \in kept : j <= i})]
                   IN  /\ \A c \in 1 .. 3 :
                            q.position[c] = p.position[c] + p.velocity[c] * dt
                       /\ 2 * TimeScale * q.life
                            = 2 * TimeScale * p.life + dt * UnitScale
                       /\ 10 * TimeScale * q.size
                            = 10 * TimeScale * p.size + 3 * dt * UnitScale
              /\ \A k \in Cardinality(kept) + 1 .. Len(particles') :
                   particles'[k].life = 0 /\ particles'[k].lived = 0
      ]_vars

\* C4 witness: one update removed a particle whose life came to exactly
\* 1.0 and kept, aged, another one.
C4_Witness ==
    /\ UnitScale \in last.removed
    /\ last.dt > 0
    /\ \E i \in 1 .. Len(particles) :
         particles[i].lived = last.dt /\ particles[i].life > 0

---------------------------------------------------------------------------
(* Claims about the vertex array and rendering. *)

\* C5 as stated: in every reachable state the vertex array holds 6 records
\* per live particle.
C5_AlwaysSixPerParticle == Len(vertices) = 6 * Len(particles)

\* C5 amended: right after every prepare_vertices or render call the vertex
\* array holds 6 records per live particle; an update call leaves the
\* vertex array as it was.
C5_SixPerParticleAfterBuild ==
    [][ /\ (PrepareVertices \/ Render) =>
              Len(vertices') = 6 * Len(particles')
        /\ updates' # updates => vertices' = vertices
      ]_vars

\* C5 witness: an array built from a store of several particles.
C5_Witness ==
    /\ Len(particles) >= 2
    /\ Len(vertices) = 6 * Len(particles)

\* the corner sequence C6 states
C6_Corners == << << -1, -1 >>, << 1, -1 >>, << 1, 1 >>,
                 << -1, -1 >>, << 1, 1 >>, << -1, 1 >> >>

\* C6: prepare_vertices (alone or within render) leaves exactly 6n records
\* for a store of n particles, whatever the array held; record 6i+j has
\* particle i's position, size and life and the j-th corner.
C6_BuildExact ==
    [][ (PrepareVertices \/ Render) =>
          /\ Len(vertices') = 6 * Len(particles)
          /\ \A i \in 0 .. Len(particles) - 1 : \A j \in 0 .. 5 :
               vertices'[6 * i + j + 1] =
                   [ position |-> particles[i + 1].position,
                     size     |-> particles[i + 1].size,
                     life     |-> particles[i + 1].life,
                     corner   |-> C6_Corners[j + 1] ]
      ]_vars

\* C6 witness: prepare_vertices, called on its own, built the records of
\* two particles that differ.
C6_Witness ==
    /\ pass = << >>
    /\ Len(particles) >= 2
    /\ particles[1].size # particles[2].size
    /\ Len(vertices) = 6 * Len(particles)
    /\ vertices[12].size = particles[2].size

C7_DrawCommands ==
    { "write_vertex_buffer", "set_pipeline", "set_bind_group_camera",
      "set_bind_group_time", "set_vertex_buffer", "draw" }

\* C7: render on an empty store leaves the vertex array empty, uploads,
\* binds and draws nothing, and still writes the time uniform.
C7_EmptyStoreNoDraw ==
    [][ (Render /\ particles = << >>) =>
          /\ vertices' = << >>
          /\ vertex_buffer' = vertex_buffer
          /\ \A i \in 1 .. Len(pass') : pass'[i].op \notin C7_DrawCommands
          /\ \E i \in 1 .. Len(pass') :
               pass'[i] = [op |-> "write_time_buffer", arg |-> clock']
          /\ time_buffer' = clock'
      ]_vars

\* C7 witness: a render on a store still empty after an update, at a
\* later time than construction.
C7_Witness ==
    /\ particles = << >>
    /\ updates > 0
    /\ pass # << >>
    /\ time_buffer > 0

\* the order of a render call's steps that C8 states
C8_Order ==
    << "write_time_buffer", "prepare_vertices", "write_vertex_buffer",
       "set_pipeline", "set_bind_group_camera", "set_bind_group_time",
       "set_vertex_buffer", "draw" >>

C8_At(log, op) == { i \in 1 .. Len(log) : log[i].op = op }

C8_Pos(log, op) == CHOOSE i \in C8_At(log, op) : TRUE

---------------------------------------------------------------------------
(* Claims about the emitter's origin and the vertex buffer. *)

C10_RoomFor1024Particles ==
    vertex_buffer.size = 1024 * 6 * VertexSize

---------------------------------------------------------------------------
(* Claims about capacity, lifetime and the spawn cone. *)

\* C11: with spawn_rate 50 and a 2 s lifetime, the vertices a render call
\* uploads never exceed the capacity of the vertex buffer.
C11_UploadWithinCapacity ==
    \A i \in 1 .. Len(pass) :
        pass[i].op = "write_vertex_buffer" =>
            pass[i].arg * VertexSize <= vertex_buffer.size

\* The particles of store ps for which the dt of the update calls after
\* the one that spawned them, this call's dt included, sums to less than
\* 2.0 seconds.
C12_Below(ps, dt) ==
    { i \in 1 .. Len(ps) : ps[i].lived + dt < 2 * TimeScale }

\* ... and to 2.0 seconds or less.
C12_UpTo(ps, dt) ==
    { i \in 1 .. Len(ps) : ps[i].lived + dt <= 2 * TimeScale }

C13_Abs(x) == IF x < 0 THEN -x ELSE x

\* C13: every spawned particle's forward (z) velocity is 2.0 * cos(angle)
\* for its sampled angle in [0, cone_angle), is strictly positive, and is
\* at least twice the magnitude of its lateral (x) velocity
\* 0.5 * sin(angle) * cos(rotation).
C13_ConeCompression ==
    \A i \in 1 .. Len(particles) :
        LET v == particles[i].velocity
        IN  /\ \E n \in 1 .. Len(AngleSamples),
                   m \in 1 .. Len(RotationSamples) :
                 LET a == AngleSamples[n]
                     r == RotationSamples[m]
                 IN  /\ 0 <= a.u /\ a.u < UnitScale
                     /\ TrigScale * v[3] = 2 * VelScale * a.cos
                     /\ 10 * TrigScale * TrigScale * v[1]
                          = 5 * VelScale * a.sin * r.cos
            /\ v[3] > 0
            /\ v[3] >= 2 * C13_Abs(v[1])

\* C13 witness: the store holds a particle sampled on the cone's axis and
\* one sampled near its edge, with a lateral velocity.
C13_Witness ==
    /\ \E i \in 1 .. Len(particles) : particles[i].velocity[1] = 0
    /\ \E i \in 1 .. Len(particles) : particles[i].velocity[1] # 0

\* C14: at the end of update(dt) every particle spawned during the call
\* has life 0, a size in [0.1, 0.2) and the current origin as position,
\* whatever dt is and however many particles the call spawns; and
\* update(0.02) on the freshly constructed system leaves exactly one
\* particle, with life 0.
C14_SpawnedUntouched ==
    [][ updates' # updates =>
          /\ last'.spawned <= Len(particles')
          /\ \A k \in Len(particles') - last'.spawned + 1 .. Len(particles') :
               /\ particles'[k].life = 0
               /\ 10 * particles'[k].size >= UnitScale
               /\ 10 * particles'[k].size < 2 * UnitScale
               /\ particles'[k].position = origin'
          /\ (updates = 0 /\ 100 * last'.dt = 2 * TimeScale) =>
               /\ Len(particles') = 1
               /\ particles'[1].life = 0
      ]_vars

\* C14 witness: one update after a 14 second stall spawned 700 particles.
C14_Witness ==
    /\ last.dt = 14 * TimeScale
    /\ last.spawned = 700
    /\ Len(particles) >= 700

---------------------------------------------------------------------------
(* Claims about what each operation leaves alone. *)

\* C15: prepare_vertices and render leave the particle list (every field
\* of every particle, and the order), the accumulator and the origin as
\* they were; the particle list and the accumulator change in update
\* calls only.  (cone_angle and spawn_rate are never assigned.)
C15_SimulationStateUntouched ==
    [][ /\ (PrepareVertices \/ Render) =>
             /\ particles' = particles
             /\ accumulator' = accumulator
             /\ origin' = origin
        /\ (particles' # particles \/ accumulator' # accumulator) =>
             updates' = updates + 1
      ]_vars

\* C15 witness: a render call has drawn a store of particles that one
\* update spawned into and the next integrated and spawned into again.
C15_Witness ==
    /\ last.spawned > 0
    /\ Len(particles) > last.spawned
    /\ particles[1].lived > 0
    /\ Len(vertices) = 6 * Len(particles)
    /\ pass # << >>
    /\ pass[Len(pass)] = [op |-> "draw", arg |-> Len(vertices)]

\* C16: a particle's velocity is the one it was spawned with: an update
\* leaves the velocity of every particle it keeps as it was, and
\* prepare_vertices, render and an assignment to origin leave every
\* particle's velocity as it was.
C16_VelocityFixed ==
    [][ IF updates' # updates
        THEN LET kept == C4_Kept(particles, last'.dt)
             IN  \A i \in kept :
                     particles'[Cardinality({j \in kept : j <= i})].velocity
                         = particles[i].velocity
        ELSE /\ Len(particles') = Len(particles)
             /\ \A i \in 1 .. Len(particles) :
                     particles'[i].velocity = particles[i].velocity
      ]_vars

\* C16 witness: a particle with a lateral velocity has been integrated,
\* the origin has been moved since it was spawned, and a render call has
\* drawn it.
C16_Witness ==
    /\ pass # << >>
    /\ \E i \in 1 .. Len(particles) :
         /\ particles[i].lived > 0
         /\ particles[i].born # origin
         /\ particles[i].velocity[1] # 0
         /\ Len(vertex_buffer.data) >= 6 * i
         /\ vertex_buffer.data[6 * i].life = particles[i].life

\* x in units of 2^-28, rounded down, for 0 <= x < 8
C17_Units28(x) ==
    IF x.m = 0 THEN 0
    ELSE IF x.e >= -28 THEN x.m * 2^(x.e + 28)
    ELSE x.m \div 2^(-28 - x.e)

\* x is a whole number of units of 2^-28
C17_Exact28(x) ==
    x.m = 0 \/ x.e >= -28 \/ x.m % 2^(-28 - x.e) = 0

C18_Units29(x) == x.m * 2^(x.e + 29)

\* C18: update terminates: each iteration of the spawn loop spawns one
\* particle and lowers the accumulator, which stays at 0 or above, and
\* the loop exits after floor((accumulator_before + dt) / spawn_interval)
\* iterations.
C18_LoopRunsFloorIterations ==
    [][ /\ (pc = "spawning" /\ last'.spawned = last.spawned + 1) =>
             /\ Len(particles') = Len(particles) + 1
             /\ F32Ge(accumulator, accumulator')
             /\ accumulator' # accumulator
        /\ (pc = "spawning" /\ pc' = "idle") =>
             /\ last.spawned * spawn_interval_f32.m
                    <= C18_Units29(last.entry)
             /\ C18_Units29(last.entry)
                    < (last.spawned + 1) * spawn_interval_f32.m
      ]_vars

====
